---------------------------- MODULE Spec2Model ----------------------------
(***************************************************************************)
(* A model of sparse.py: the SparseMatrix class (a dictionary of entries   *)
(* keyed by (row, col) with row_count / col_count), its loader from_file,  *)
(* its serializer __str__ / save_to_file, the three arithmetic methods and *)
(* the interactive driver perform_calculations.                            *)
(*                                                                         *)
(* Objects live in a heap (a sequence of matrix records, an object's       *)
(* identity is its index).  A Python dict is an insertion-ordered sequence *)
(* of (key, val) records with unique keys.  A text is a sequence of        *)
(* one-character strings.  Python integers are unbounded, and so are the   *)
(* integers of the model.                                                  *)
(***************************************************************************)
EXTENDS Integers, Sequences, FiniteSets, TLC

VARIABLES
    heap,      \* the SparseMatrix objects: heap[id] = [row_count, col_count, data]
    calls,     \* the calls made so far, each with its outcome
    plan,      \* the sequences of calls the caller may still make: it settles
               \* on one with its first call
    disk,      \* the file system: the text of each file that exists
    pc,        \* perform_calculations: the statement it is at
    stdin,     \* the lines input() has still to return
    stdout,    \* what print() has written
    env        \* the local variables of perform_calculations

vars == <<heap, calls, plan, disk, pc, stdin, stdout, env>>

\* The variables of perform_calculations: a caller of the class alone leaves
\* them as they are.
progVars == <<pc, stdin, stdout, env>>

----------------------------------------------------------------------------
(* Bounds of the model *)

\* The constructor is called with dimensions in 0..MaxDim and set_element
\* with indices in 0..MaxDim, so an index equal to the dimension expands it.
MaxDim == 1

\* The caller fills a matrix with at most MaxEntries entries,
MaxEntries == 2

\* and all its matrices together with at most MaxTotal.
MaxTotal == 4

\* A file to load has at most MaxLines lines after its two header lines.
MaxLines == 2

\* The values the caller stores.
Vals == {-1, 0, 1}

----------------------------------------------------------------------------
(* The dict of a SparseMatrix: insertion-ordered, keys unique *)

RECURSIVE DictIndex(_, _, _)
\* The position of key k in dict d at or after position i, 0 when absent.
DictIndex(d, k, i) ==
    IF i > Len(d) THEN 0
    ELSE IF d[i].key = k THEN i
    ELSE DictIndex(d, k, i + 1)

\* d.get(k, default)
DictGet(d, k, default) ==
    LET i == DictIndex(d, k, 1)
    IN  IF i = 0 THEN default ELSE d[i].val

\* d[k] = v: an existing key keeps its position, a new key goes last.
DictSet(d, k, v) ==
    LET i == DictIndex(d, k, 1)
    IN  IF i = 0 THEN Append(d, [key |-> k, val |-> v])
        ELSE [d EXCEPT ![i] = [key |-> k, val |-> v]]

----------------------------------------------------------------------------
(* SparseMatrix: constructor and accessors *)

\* __init__
SparseMatrix(row_count, col_count) ==
    [row_count |-> row_count, col_count |-> col_count, data |-> <<>>]

\* get_element
get_element(m, row_idx, col_idx) == DictGet(m.data, <<row_idx, col_idx>>, 0)

\* set_element with the dimension set to the index, not to the index + 1
set_elementOffByOne(m, row_idx, col_idx, value) ==
    [row_count |-> IF row_idx >= m.row_count THEN row_idx ELSE m.row_count,
     col_count |-> IF col_idx >= m.col_count THEN col_idx ELSE m.col_count,
     data      |-> DictSet(m.data, <<row_idx, col_idx>>, value)]

\* set_element
set_element(m, row_idx, col_idx, value) ==
    [row_count |-> IF row_idx >= m.row_count THEN row_idx + 1 ELSE m.row_count,
     col_count |-> IF col_idx >= m.col_count THEN col_idx + 1 ELSE m.col_count,
     data      |-> DictSet(m.data, <<row_idx, col_idx>>, value)]

----------------------------------------------------------------------------
(* The arithmetic methods.  A method runs on a frame: the heap together    *)
(* with the number of get_element and set_element calls it has made.  It   *)
(* returns the frame, the identity of the returned object (0: none) and    *)
(* the exception raised ("none": returned normally).                       *)

Frame(h) == [heap |-> h, gets |-> 0, sets |-> 0]

\* result_matrix = SparseMatrix(rows, cols): a new object, after all others.
NewMatrix(st, row_count, col_count) ==
    [st EXCEPT !.heap = Append(@, SparseMatrix(row_count, col_count))]

\* obj.set_element(row, col, value) on the object id of the frame.
CallSet(st, id, row, col, value) ==
    [st EXCEPT !.heap[id] = set_element(@, row, col, value), !.sets = @ + 1]

\* An exception leaves the method: nothing is returned.  kind names the
\* message and info holds the values formatted into it.
Raise(st, kind, info) ==
    [heap |-> st.heap, ret |-> 0, err |-> kind, info |-> info,
     gets |-> st.gets, sets |-> st.sets]

Return(st, id) ==
    [heap |-> st.heap, ret |-> id, err |-> "none", info |-> <<>>,
     gets |-> st.gets, sets |-> st.sets]

RECURSIVE CopyEntries(_, _, _, _)
\* for (row, col), val in self.data.items(): result.set_element(row, col, val)
CopyEntries(st, res, src, i) ==
    IF i > Len(st.heap[src].data) THEN st
    ELSE LET e == st.heap[src].data[i]
         IN  CopyEntries(CallSet(st, res, e.key[1], e.key[2], e.val), res, src, i + 1)

RECURSIVE AddEntriesOverwrite(_, _, _, _)
\* The second loop of add storing val, not current_val + val
AddEntriesOverwrite(st, res, src, i) ==
    IF i > Len(st.heap[src].data) THEN st
    ELSE LET e == st.heap[src].data[i]
             st1 == [st EXCEPT !.gets = @ + 1]
         IN  AddEntriesOverwrite(CallSet(st1, res, e.key[1], e.key[2], e.val), res, src, i + 1)

RECURSIVE AddEntries(_, _, _, _)
\* for (row, col), val in other.data.items():
\*     result.set_element(row, col, result.get_element(row, col) + val)
AddEntries(st, res, src, i) ==
    IF i > Len(st.heap[src].data) THEN st
    ELSE LET e == st.heap[src].data[i]
             current_val == get_element(st.heap[res], e.key[1], e.key[2])
             st1 == [st EXCEPT !.gets = @ + 1]
         IN  AddEntries(CallSet(st1, res, e.key[1], e.key[2], current_val + e.val),
                        res, src, i + 1)

RECURSIVE SubtractEntriesAdds(_, _, _, _)
\* The second loop of subtract left as add's: current_val + val
SubtractEntriesAdds(st, res, src, i) ==
    IF i > Len(st.heap[src].data) THEN st
    ELSE LET e == st.heap[src].data[i]
             current_val == get_element(st.heap[res], e.key[1], e.key[2])
             st1 == [st EXCEPT !.gets = @ + 1]
         IN  SubtractEntriesAdds(CallSet(st1, res, e.key[1], e.key[2], current_val + e.val),
                                 res, src, i + 1)

RECURSIVE SubtractEntries(_, _, _, _)
\* for (row, col), val in other.data.items():
\*     result.set_element(row, col, result.get_element(row, col) - val)
SubtractEntries(st, res, src, i) ==
    IF i > Len(st.heap[src].data) THEN st
    ELSE LET e == st.heap[src].data[i]
             current_val == get_element(st.heap[res], e.key[1], e.key[2])
             st1 == [st EXCEPT !.gets = @ + 1]
         IN  SubtractEntries(CallSet(st1, res, e.key[1], e.key[2], current_val - e.val),
                             res, src, i + 1)

RECURSIVE MultiplyRowWrongIndex(_, _, _, _, _, _, _)
\* The inner loop of multiply reading other[row][k], not other[col][k]
MultiplyRowWrongIndex(st, res, other, row, col, val, k) ==
    IF k >= st.heap[other].col_count THEN st
    ELSE LET other_val == get_element(st.heap[other], row, k)
             st1 == [st EXCEPT !.gets = @ + 1]
         IN  IF other_val # 0
             THEN LET current_val == get_element(st1.heap[res], row, k)
                      st2 == [st1 EXCEPT !.gets = @ + 1]
                  IN  MultiplyRowWrongIndex(
                          CallSet(st2, res, row, k, current_val + val * other_val),
                          res, other, row, col, val, k + 1)
             ELSE MultiplyRowWrongIndex(st1, res, other, row, col, val, k + 1)

RECURSIVE MultiplyRowOverwrite(_, _, _, _, _, _, _)
\* The inner loop of multiply storing val * other_val, not adding it
MultiplyRowOverwrite(st, res, other, row, col, val, k) ==
    IF k >= st.heap[other].col_count THEN st
    ELSE LET other_val == get_element(st.heap[other], col, k)
             st1 == [st EXCEPT !.gets = @ + 1]
         IN  IF other_val # 0
             THEN MultiplyRowOverwrite(CallSet(st1, res, row, k, val * other_val),
                                       res, other, row, col, val, k + 1)
             ELSE MultiplyRowOverwrite(st1, res, other, row, col, val, k + 1)

RECURSIVE MultiplyRow(_, _, _, _, _, _, _)
\* for k in range(other.col_count): the inner loop of multiply for one entry
\* (row, col) -> val of self.
MultiplyRow(st, res, other, row, col, val, k) ==
    IF k >= st.heap[other].col_count THEN st
    ELSE LET other_val == get_element(st.heap[other], col, k)
             st1 == [st EXCEPT !.gets = @ + 1]
         IN  IF other_val # 0
             THEN LET current_val == get_element(st1.heap[res], row, k)
                      st2 == [st1 EXCEPT !.gets = @ + 1]
                  IN  MultiplyRow(CallSet(st2, res, row, k, current_val + val * other_val),
                                  res, other, row, col, val, k + 1)
             ELSE MultiplyRow(st1, res, other, row, col, val, k + 1)

RECURSIVE MultiplyEntries(_, _, _, _, _)
\* for (row, col), val in self.data.items(): the outer loop of multiply.
MultiplyEntries(st, res, self, other, i) ==
    IF i > Len(st.heap[self].data) THEN st
    ELSE LET e == st.heap[self].data[i]
         IN  MultiplyEntries(MultiplyRow(st, res, other, e.key[1], e.key[2], e.val, 0),
                             res, self, other, i + 1)

\* add checking the shapes after it has built the result
addValidatesLate(h, self, other) ==
    LET res == Len(h) + 1
        st0 == NewMatrix(Frame(h), h[self].row_count, h[self].col_count)
        st1 == CopyEntries(st0, res, self, 1)
        st2 == AddEntries(st1, res, other, 1)
    IN  IF h[self].row_count # h[other].row_count \/ h[self].col_count # h[other].col_count
        THEN Raise(st2, "DimensionMismatch", <<"addition">>)
        ELSE Return(st2, res)

\* self.add(other_matrix), self and other_matrix being objects of the heap h
add(h, self, other) ==
    IF h[self].row_count # h[other].row_count \/ h[self].col_count # h[other].col_count
    THEN Raise(Frame(h), "DimensionMismatch", <<"addition">>)
    ELSE LET res == Len(h) + 1
             st0 == NewMatrix(Frame(h), h[self].row_count, h[self].col_count)
             st1 == CopyEntries(st0, res, self, 1)
             st2 == AddEntries(st1, res, other, 1)
         IN  Return(st2, res)

\* subtract with result_matrix = self: it works on the left operand itself
subtractInPlace(h, self, other) ==
    IF h[self].row_count # h[other].row_count \/ h[self].col_count # h[other].col_count
    THEN Raise(Frame(h), "DimensionMismatch", <<"subtraction">>)
    ELSE Return(SubtractEntries(CopyEntries(Frame(h), self, self, 1), self, other, 1), self)

\* self.subtract(other_matrix)
subtract(h, self, other) ==
    IF h[self].row_count # h[other].row_count \/ h[self].col_count # h[other].col_count
    THEN Raise(Frame(h), "DimensionMismatch", <<"subtraction">>)
    ELSE LET res == Len(h) + 1
             st0 == NewMatrix(Frame(h), h[self].row_count, h[self].col_count)
             st1 == CopyEntries(st0, res, self, 1)
             st2 == SubtractEntries(st1, res, other, 1)
         IN  Return(st2, res)

\* self.multiply(other_matrix)
multiply(h, self, other) ==
    IF h[self].col_count # h[other].row_count
    THEN Raise(Frame(h), "DimensionMismatch", <<"multiplication">>)
    ELSE LET res == Len(h) + 1
             st0 == NewMatrix(Frame(h), h[self].row_count, h[other].col_count)
             st1 == MultiplyEntries(st0, res, self, other, 1)
         IN  Return(st1, res)

----------------------------------------------------------------------------
(* Texts: a str is a sequence of one-character strings *)

DigitChars == <<"0", "1", "2", "3", "4", "5", "6", "7", "8", "9">>

\* \d of the patterns, for the characters of the model's texts
IsDigit(ch) == \E d \in 1..10 : DigitChars[d] = ch

\* The ASCII control characters 0x0b and 0x1c..0x1f, each written as itself
\* between the quotes: Python counts them as whitespace.
VerticalTab == ""
FileSeparator == ""
GroupSeparator == ""
RecordSeparator == ""
UnitSeparator == ""

\* \s of the patterns and the characters str.strip() removes: the ASCII
\* whitespace of Python.  (Python also takes 0x85, 0xa0 and the Unicode
\* spaces, characters outside ASCII that the texts of the model do not hold.)
IsSpace(ch) ==
    ch \in {" ", "\t", "\n", "\r", "\f", VerticalTab,
            FileSeparator, GroupSeparator, RecordSeparator, UnitSeparator}

DigitValue(ch) == (CHOOSE d \in 1..10 : DigitChars[d] = ch) - 1

RECURSIVE ParseNat(_, _)
\* int() of the digits s[1..n]
ParseNat(s, n) ==
    IF n = 0 THEN 0 ELSE 10 * ParseNat(s, n - 1) + DigitValue(s[n])

\* int(s), s being digits with an optional minus sign in front
int(s) ==
    IF s # <<>> /\ s[1] = "-" THEN 0 - ParseNat(Tail(s), Len(s) - 1)
    ELSE ParseNat(s, Len(s))

RECURSIVE NatToStr(_)
NatToStr(n) ==
    IF n < 10 THEN <<DigitChars[n + 1]>>
    ELSE NatToStr(n \div 10) \o <<DigitChars[(n % 10) + 1]>>

\* str(n), what an f-string makes of the integer n
str(n) == IF n < 0 THEN <<"-">> \o NatToStr(0 - n) ELSE NatToStr(n)

RECURSIVE SkipSpaceLeft(_, _)
SkipSpaceLeft(s, i) ==
    IF i <= Len(s) /\ IsSpace(s[i]) THEN SkipSpaceLeft(s, i + 1) ELSE i

RECURSIVE SkipSpaceRight(_, _)
SkipSpaceRight(s, j) ==
    IF j >= 1 /\ IsSpace(s[j]) THEN SkipSpaceRight(s, j - 1) ELSE j

\* s.strip()
strip(s) ==
    LET i == SkipSpaceLeft(s, 1)
        j == SkipSpaceRight(s, Len(s))
    IN  IF i > j THEN <<>> ELSE SubSeq(s, i, j)

RECURSIVE LineEnd(_, _)
\* The position where the line starting at i ends.  open(file_path, "r")
\* reads with universal newlines: "\n", "\r" and "\r\n" each end a line.
LineEnd(s, i) ==
    IF i >= Len(s) THEN i
    ELSE IF s[i] = "\r" /\ s[i + 1] = "\n" THEN i + 1
    ELSE IF s[i] = "\n" \/ s[i] = "\r" THEN i
    ELSE LineEnd(s, i + 1)

RECURSIVE ReadLinesFrom(_, _)
\* The lines of s from position i on, the end of each given as "\n"
ReadLinesFrom(s, i) ==
    IF i > Len(s) THEN <<>>
    ELSE LET j == LineEnd(s, i)
             line == IF s[j] = "\n" /\ j > i /\ s[j - 1] = "\r"
                     THEN SubSeq(s, i, j - 2) \o <<"\n">>
                     ELSE IF s[j] = "\r" THEN SubSeq(s, i, j - 1) \o <<"\n">>
                     ELSE SubSeq(s, i, j)
         IN  <<line>> \o ReadLinesFrom(s, j + 1)

\* open(file_path, "r") and file.readlines(): the lines of the text, each
\* with its "\n"
readlines(s) == ReadLinesFrom(s, 1)

RECURSIVE MatchDigits(_, _)
\* \d+ at position i of s, greedy: the position after the digits (i: no digit)
MatchDigits(s, i) ==
    IF i <= Len(s) /\ IsDigit(s[i]) THEN MatchDigits(s, i + 1) ELSE i

\* A literal character of a pattern at position i of s
MatchChar(s, i, ch) == i <= Len(s) /\ s[i] = ch

NoMatch == [ok |-> FALSE, groups |-> <<>>]

RowsPrefix == <<"r", "o", "w", "s", "=">>
ColsPrefix == <<"c", "o", "l", "s", "=">>

\* re.match(prefix + r'(\d+)', s): the pattern at the start of s, whatever follows
MatchHeader(prefix, s) ==
    LET i == Len(prefix) + 1
        j == MatchDigits(s, i)
    IN  IF Len(s) >= Len(prefix) /\ SubSeq(s, 1, Len(prefix)) = prefix /\ j > i
        THEN [ok |-> TRUE, groups |-> <<SubSeq(s, i, j - 1)>>]
        ELSE NoMatch

\* re.match(r'\((\d+),\s*(\d+),\s*(-?\d+)\)', s): the pattern at the start of
\* s, whatever follows.  No step of it has two ways to match.
MatchEntry(s) ==
    LET r1 == 2
        r2 == MatchDigits(s, r1)
        c1 == SkipSpaceLeft(s, r2 + 1)
        c2 == MatchDigits(s, c1)
        v1 == SkipSpaceLeft(s, c2 + 1)
        v2 == IF MatchChar(s, v1, "-") THEN v1 + 1 ELSE v1
        v3 == MatchDigits(s, v2)
    IN  IF /\ MatchChar(s, 1, "(")
           /\ r2 > r1
           /\ MatchChar(s, r2, ",")
           /\ c2 > c1
           /\ MatchChar(s, c2, ",")
           /\ v3 > v2
           /\ MatchChar(s, v3, ")")
        THEN [ok |-> TRUE,
              groups |-> <<SubSeq(s, r1, r2 - 1), SubSeq(s, c1, c2 - 1), SubSeq(s, v1, v3 - 1)>>]
        ELSE NoMatch

----------------------------------------------------------------------------
(* The loader and the serializer.  fs is the file system: a function from  *)
(* the paths of the files that exist to their texts.                       *)

RECURSIVE ParseEntries(_, _, _, _, _)
\* for i in range(2, len(lines)), with i here the 1-based line number (i + 1
\* of the code); a line that does not match raises, the others are stored.
ParseEntries(st, res, lines, file_path, i) ==
    IF i > Len(lines) THEN Return(st, res)
    ELSE LET line == strip(lines[i])
             entry_pattern == MatchEntry(line)
         IN  IF line = <<>> THEN ParseEntries(st, res, lines, file_path, i + 1)
             ELSE IF ~entry_pattern.ok
             THEN Raise(st, "InvalidEntry", <<i, file_path, line>>)
             ELSE ParseEntries(CallSet(st, res, int(entry_pattern.groups[1]),
                                       int(entry_pattern.groups[2]),
                                       int(entry_pattern.groups[3])),
                               res, lines, file_path, i + 1)

\* SparseMatrix.from_file(file_path)
from_file(h, fs, file_path) ==
    IF file_path \notin DOMAIN fs
    THEN Raise(Frame(h), "FileNotFound", <<file_path>>)
    ELSE LET lines == readlines(fs[file_path])
         IN  IF Len(lines) < 2
             THEN Raise(Frame(h), "NotEnoughLines", <<file_path>>)
             ELSE LET row_pattern == MatchHeader(RowsPrefix, strip(lines[1]))
                      col_pattern == MatchHeader(ColsPrefix, strip(lines[2]))
                  IN  IF ~row_pattern.ok \/ ~col_pattern.ok
                      THEN Raise(Frame(h), "InvalidHeader", <<file_path>>)
                      ELSE LET total_rows == int(row_pattern.groups[1])
                               total_cols == int(col_pattern.groups[1])
                               st0 == NewMatrix(Frame(h), total_rows, total_cols)
                           IN  ParseEntries(st0, Len(h) + 1, lines, file_path, 3)

RECURSIVE EntryLinesSwapped(_, _)
\* The loop of __str__ writing the column before the row
EntryLinesSwapped(d, i) ==
    IF i > Len(d) THEN <<>>
    ELSE <<"(">> \o str(d[i].key[2]) \o <<",", " ">> \o str(d[i].key[1])
         \o <<",", " ">> \o str(d[i].val) \o <<")", "\n">> \o EntryLinesSwapped(d, i + 1)

RECURSIVE EntryLines(_, _)
\* for key, val in self.data.items(): output += f"({key[0]}, {key[1]}, {val})\n"
EntryLines(d, i) ==
    IF i > Len(d) THEN <<>>
    ELSE <<"(">> \o str(d[i].key[1]) \o <<",", " ">> \o str(d[i].key[2])
         \o <<",", " ">> \o str(d[i].val) \o <<")", "\n">> \o EntryLines(d, i + 1)

\* __str__
__str__(m) ==
    strip(RowsPrefix \o str(m.row_count) \o <<"\n">>
          \o ColsPrefix \o str(m.col_count) \o <<"\n">> \o EntryLines(m.data, 1))

\* open(output_path, "w") and file.write(content): the file system afterwards
WriteFile(fs, output_path, content) ==
    [p \in DOMAIN fs \cup {output_path} |-> IF p = output_path THEN content ELSE fs[p]]

\* save_to_file
save_to_file(fs, m, output_path) == WriteFile(fs, output_path, __str__(m))

----------------------------------------------------------------------------
(* A caller of the class: it constructs matrices, fills them with          *)
(* set_element and then makes the arithmetic calls of one of its plans,    *)
(* each on objects of the heap (a result is the next object).  An          *)
(* exception ends the caller.                                              *)

Call(op, a, b) == [op |-> op, a |-> a, b |-> b]

\* One call on each pair of two matrices, the same matrix twice included.
SinglePlans ==
    { <<Call(op, a, b)>> : op \in {"add", "subtract", "multiply"}, a \in 1..2, b \in 1..2 }

\* Subtract(Add(A, B), B)
RoundTripPlan == << Call("add", 1, 2), Call("subtract", 3, 2) >>

\* Multiply(Add(A, B), C) and Add(Multiply(A, C), Multiply(B, C)), the objects
\* 1, 2, 3 being A, B, C
DistributePlan ==
    << Call("add", 1, 2), Call("multiply", 4, 3),
       Call("multiply", 1, 3), Call("multiply", 2, 3), Call("add", 6, 7) >>

Plans == SinglePlans \cup {RoundTripPlan}

Dims == 0..MaxDim

Empties == { SparseMatrix(r, c) : r \in Dims, c \in Dims }

\* The matrices of the documented example: {(0,0,1),(0,1,2)} of shape 1x2 and
\* {(0,0,3),(1,0,4)} of shape 2x1, built with set_element.
ExampleA == set_element(set_element(SparseMatrix(1, 2), 0, 0, 1), 0, 1, 2)
ExampleB == set_element(set_element(SparseMatrix(2, 1), 0, 0, 3), 1, 0, 4)
Examples == {ExampleA, ExampleB}

RECURSIVE TotalEntries(_, _)
\* The number of entries stored in the objects i.. of heap h.
TotalEntries(h, i) ==
    IF i > Len(h) THEN 0 ELSE Len(h[i].data) + TotalEntries(h, i + 1)

\* No file, and perform_calculations not running.
NoFiles == [p \in {} |-> <<>>]

NoProgram ==
    /\ pc = "none"
    /\ stdin = <<>>
    /\ stdout = <<>>
    /\ env = [p \in {} |-> 0]

Init ==
    /\ heap \in [1..2 -> Empties \cup Examples]
    /\ calls = <<>>
    /\ plan = Plans
    /\ disk = NoFiles
    /\ NoProgram

\* A dimension of a matrix as constructed: none, so that the matrix grows
\* as values are stored, or the one that holds every index of Dims
Shapes == {0, MaxDim + 1}

InitDistribute ==
    /\ \E r \in Shapes, c \in Shapes, q \in Shapes :
           heap = << SparseMatrix(r, c), SparseMatrix(r, c), SparseMatrix(c, q) >>
    /\ calls = <<>>
    /\ plan = {DistributePlan}
    /\ disk = NoFiles
    /\ NoProgram

\* The caller stores a value: m.set_element(row, col, value).
Set(id, row, col, value) ==
    /\ calls = <<>>
    /\ heap' = [heap EXCEPT ![id] = set_element(@, row, col, value)]
    /\ Len(heap'[id].data) <= MaxEntries
    /\ TotalEntries(heap', 1) <= MaxTotal
    /\ UNCHANGED <<calls, plan, disk, progVars>>

\* The record of a finished call: the call and what the method returned.
Outcome(c, r) ==
    [op |-> c.op, a |-> c.a, b |-> c.b, ret |-> r.ret, err |-> r.err,
     info |-> r.info, gets |-> r.gets, sets |-> r.sets]

\* The caller's call returns or raises.
Finish(p, r) ==
    /\ heap' = r.heap
    /\ calls' = Append(calls, Outcome(Head(p), r))
    /\ plan' = IF r.err = "none" THEN {Tail(p)} ELSE {<<>>}
    /\ UNCHANGED progVars

Add ==
    \E p \in plan :
        /\ p # <<>>
        /\ Head(p).op = "add"
        /\ Finish(p, add(heap, Head(p).a, Head(p).b))
        /\ UNCHANGED disk

Subtract ==
    \E p \in plan :
        /\ p # <<>>
        /\ Head(p).op = "subtract"
        /\ Finish(p, subtract(heap, Head(p).a, Head(p).b))
        /\ UNCHANGED disk

Multiply ==
    \E p \in plan :
        /\ p # <<>>
        /\ Head(p).op = "multiply"
        /\ Finish(p, multiply(heap, Head(p).a, Head(p).b))
        /\ UNCHANGED disk

SetAny ==
    \E id \in DOMAIN heap, row \in Dims, col \in Dims, value \in Vals :
        Set(id, row, col, value)

Next == SetAny \/ Add \/ Subtract \/ Multiply

Spec == Init /\ [][Next]_vars

\* The caller of the distributive law stores values other than zero: the
\* zeros its matrices hold are those add stores where A and B cancel.
SetNonZero ==
    \E id \in DOMAIN heap, row \in Dims, col \in Dims, value \in Vals \ {0} :
        Set(id, row, col, value)

NextDistribute == SetNonZero \/ Add \/ Multiply

SpecDistribute == InitDistribute /\ [][NextDistribute]_vars

----------------------------------------------------------------------------
(* A caller of the loader: it loads in.txt, saves the matrix to out.txt    *)
(* and loads that.                                                         *)

LoadPlan ==
    << Call("from_file", 0, "in.txt"), Call("save_to_file", 1, "out.txt"),
       Call("from_file", 0, "out.txt") >>

\* A header line as the serializer writes it.
HeaderLine(prefix, n) == prefix \o str(n)

\* An entry line as the serializer writes it.
EntryLine(row, col, value) ==
    <<"(">> \o str(row) \o <<",", " ">> \o str(col) \o <<",", " ">> \o str(value) \o <<")">>

\* The first and second lines tried: the serializer's, with text after the
\* number, with blanks around, without a number, and with another key.
HeaderLines(prefix) ==
    { HeaderLine(prefix, n) : n \in Dims }
    \cup { HeaderLine(prefix, 1) \o <<"x">>,
           <<" ">> \o HeaderLine(prefix, 1) \o <<" ", "\t">>,
           prefix,
           [prefix EXCEPT ![4] = "z"] \o <<"3">> }

\* The later lines tried: entries as the serializer writes them (one twice
\* with two values, one past any declared dimension, one of several digits),
\* an entry without blanks, with blanks doubled, with text after it, with
\* text before it, without its value, with control characters for blanks, and
\* lines that are empty when stripped.
BodyLines ==
    { EntryLine(0, 0, 1), EntryLine(0, 0, -1), EntryLine(1, 0, 0), EntryLine(2, 3, -12),
      <<"(", "0", ",", "1", ",", "2", ")">>,
      <<"(", "1", ",", " ", " ", "1", ",", "\t", "-", "0", "7", ")", " ">>,
      EntryLine(0, 1, 5) \o <<"x">>,
      <<"x">> \o EntryLine(0, 1, 5),
      <<"(", "1", ",", " ", "2", ")">>,
      <<"(", "0", ",", "\f", "1", ",", VerticalTab, "2", ")", UnitSeparator>>,
      <<>>,
      <<"\f", FileSeparator>>,
      <<" ", " ">> }

RECURSIVE JoinLines(_)
\* The lines each followed by "\n".
JoinLines(lines) ==
    IF lines = <<>> THEN <<>> ELSE Head(lines) \o <<"\n">> \o JoinLines(Tail(lines))

RECURSIVE Bodies(_)
\* The sequences of at most n body lines.
Bodies(n) ==
    IF n = 0 THEN { <<>> }
    ELSE LET shorter == Bodies(n - 1)
         IN  shorter \cup { Append(b, l) : b \in { x \in shorter : Len(x) = n - 1 }, l \in BodyLines }

RECURSIVE JoinLinesWith(_, _)
\* The lines each followed by the line end given.
JoinLinesWith(lines, end) ==
    IF lines = <<>> THEN <<>>
    ELSE Head(lines) \o end \o JoinLinesWith(Tail(lines), end)

\* Texts whose lines end with "\r" or "\r\n", with or without the last end
CarriageTexts ==
    LET lines == <<HeaderLine(RowsPrefix, 1), HeaderLine(ColsPrefix, 1),
                   EntryLine(0, 1, -1), EntryLine(1, 0, 1)>>
        ended == { JoinLinesWith(SubSeq(lines, 1, n), e) :
                     n \in 1..4, e \in { <<"\r">>, <<"\r", "\n">> } }
    IN  ended \cup { SubSeq(t, 1, Len(t) - 1) : t \in ended }

\* The texts loaded: two header lines and a body, with or without the last
\* "\n", and the texts of fewer than two lines.
Texts ==
    LET full == { JoinLines(<<h1, h2>> \o b) :
                    h1 \in HeaderLines(RowsPrefix), h2 \in HeaderLines(ColsPrefix),
                    b \in Bodies(MaxLines) }
    IN  full \cup { SubSeq(t, 1, Len(t) - 1) : t \in full }
        \cup { <<>>, HeaderLine(RowsPrefix, 1), HeaderLine(RowsPrefix, 1) \o <<"\n">> }
        \cup CarriageTexts

InitLoad ==
    /\ heap = <<>>
    /\ calls = <<>>
    /\ plan = {LoadPlan}
    /\ \E t \in Texts : disk = [p \in {"in.txt"} |-> t]
    /\ NoProgram

LoadFile ==
    \E p \in plan :
        /\ p # <<>>
        /\ Head(p).op = "from_file"
        /\ Finish(p, from_file(heap, disk, Head(p).b))
        /\ UNCHANGED disk

SaveFile ==
    \E p \in plan :
        /\ p # <<>>
        /\ Head(p).op = "save_to_file"
        /\ disk' = save_to_file(disk, heap[Head(p).a], Head(p).b)
        /\ Finish(p, Return(Frame(heap), 0))

NextLoad == LoadFile \/ SaveFile

SpecLoad == InitLoad /\ [][NextLoad]_vars

----------------------------------------------------------------------------
(* perform_calculations *)

\* operations with the names of '1' and '3' exchanged
OperationsMislabelled ==
    [k \in {"1", "2", "3"} |->
        CASE k = "1" -> [name |-> "addition", method |-> "subtract"]
          [] k = "2" -> [name |-> "multiplication", method |-> "multiply"]
          [] k = "3" -> [name |-> "subtraction", method |-> "add"]]

\* operations
Operations ==
    [k \in {"1", "2", "3"} |->
        CASE k = "1" -> [name |-> "subtraction", method |-> "subtract"]
          [] k = "2" -> [name |-> "multiplication", method |-> "multiply"]
          [] k = "3" -> [name |-> "addition", method |-> "add"]]

\* What operations.get(choice) returns for a choice that is no key.
NoOperation == [name |-> "", method |-> ""]

\* getattr(matrix1, method)(matrix2)
CallMethod(h, self, method, other) ==
    CASE method = "add" -> add(h, self, other)
      [] method = "subtract" -> subtract(h, self, other)
      [] method = "multiply" -> multiply(h, self, other)

\* except Exception as error: print("Error:", error)
Except(kind, info) ==
    /\ stdout' = Append(stdout, [kind |-> "error", err |-> kind, info |-> info])
    /\ pc' = "done"

\* The files of a run: the documented example's two matrices, a 2x2 matrix
\* with a negative value, a matrix whose entry lies past its header, and
\* texts the loader refuses or reads only the start of.
ProgramTexts ==
    { JoinLines(<<HeaderLine(RowsPrefix, 1), HeaderLine(ColsPrefix, 2),
                  EntryLine(0, 0, 1), EntryLine(0, 1, 2)>>),
      JoinLines(<<HeaderLine(RowsPrefix, 2), HeaderLine(ColsPrefix, 1),
                  EntryLine(0, 0, 3), EntryLine(1, 0, 4)>>),
      JoinLines(<<HeaderLine(RowsPrefix, 2), HeaderLine(ColsPrefix, 2),
                  EntryLine(0, 0, -1), EntryLine(1, 1, 2)>>),
      JoinLines(<<HeaderLine(RowsPrefix, 1), HeaderLine(ColsPrefix, 1),
                  EntryLine(1, 1, 1), EntryLine(0, 0, 1)>>),
      JoinLines(<<HeaderLine(RowsPrefix, 0), HeaderLine(ColsPrefix, 0)>>),
      JoinLines(<<[RowsPrefix EXCEPT ![4] = "z"] \o <<"3">>, HeaderLine(ColsPrefix, 1)>>),
      JoinLines(<<HeaderLine(RowsPrefix, 1), HeaderLine(ColsPrefix, 2),
                  <<"(", "1", ",", " ", "2", ")">>>>),
      HeaderLine(RowsPrefix, 1) }

ProgramPaths == {"a.txt", "b.txt", "missing.txt"}

ProgramChoices == {"1", "2", "3", "4", ""}

\* What the user types: two paths and a choice, or less (input() then raises
\* EOFError).
ProgramInputs ==
    LET all == { <<p1, p2, c>> : p1 \in ProgramPaths, p2 \in ProgramPaths, c \in ProgramChoices }
    IN  all \cup { SubSeq(i, 1, n) : i \in all, n \in 0..2 }

InitRun ==
    /\ heap = <<>>
    /\ calls = <<>>
    /\ plan = { <<>> }
    /\ disk \in [{"a.txt", "b.txt"} -> ProgramTexts]
    /\ pc = "menu"
    /\ stdin \in ProgramInputs
    /\ stdout = <<>>
    /\ env = [first_matrix_path |-> "", matrix1 |-> 0,
              second_matrix_path |-> "", matrix2 |-> 0,
              operation_choice |-> "", selected_operation |-> NoOperation,
              result_matrix |-> 0]

\* print("Available operations:") and the loop over operations.items()
ShowMenu ==
    /\ pc = "menu"
    /\ stdout' = stdout \o <<[kind |-> "title", text |-> "Available operations:"],
                             [kind |-> "menu", key |-> "1", name |-> Operations["1"].name],
                             [kind |-> "menu", key |-> "2", name |-> Operations["2"].name],
                             [kind |-> "menu", key |-> "3", name |-> Operations["3"].name]>>
    /\ pc' = "first"
    /\ UNCHANGED <<heap, calls, plan, disk, stdin, env>>

\* input(prompt) and SparseMatrix.from_file(path) for the first (which = 1)
\* or second matrix, then print("... loaded successfully.")
LoadMatrix(which, next) ==
    /\ UNCHANGED <<plan, disk>>
    /\ IF stdin = <<>>
       THEN /\ Except("EOFError", <<>>)
            /\ UNCHANGED <<heap, calls, stdin, env>>
       ELSE LET r == from_file(heap, disk, Head(stdin))
            IN  /\ stdin' = Tail(stdin)
                /\ heap' = r.heap
                /\ calls' = Append(calls, Outcome(Call("from_file", 0, Head(stdin)), r))
                /\ IF r.err = "none"
                   THEN /\ env' = IF which = 1
                                  THEN [env EXCEPT !.first_matrix_path = Head(stdin),
                                                   !.matrix1 = r.ret]
                                  ELSE [env EXCEPT !.second_matrix_path = Head(stdin),
                                                   !.matrix2 = r.ret]
                        /\ stdout' = Append(stdout, [kind |-> "loaded", which |-> which])
                        /\ pc' = next
                   ELSE /\ Except(r.err, r.info)
                        /\ env' = IF which = 1
                                  THEN [env EXCEPT !.first_matrix_path = Head(stdin)]
                                  ELSE [env EXCEPT !.second_matrix_path = Head(stdin)]

LoadFirst ==
    /\ pc = "first"
    /\ LoadMatrix(1, "second")

LoadSecond ==
    /\ pc = "second"
    /\ LoadMatrix(2, "choose")

\* operation_choice = input(...); selected_operation = operations.get(...)
ChooseOperation ==
    /\ pc = "choose"
    /\ UNCHANGED <<heap, calls, plan, disk>>
    /\ IF stdin = <<>>
       THEN /\ Except("EOFError", <<>>)
            /\ UNCHANGED <<stdin, env>>
       ELSE LET operation_choice == Head(stdin)
                selected_operation ==
                    IF operation_choice \in DOMAIN Operations
                    THEN Operations[operation_choice] ELSE NoOperation
            IN  /\ stdin' = Tail(stdin)
                /\ IF selected_operation = NoOperation
                   THEN /\ Except("InvalidChoice", <<>>)
                        /\ env' = [env EXCEPT !.operation_choice = operation_choice]
                   ELSE /\ env' = [env EXCEPT !.operation_choice = operation_choice,
                                              !.selected_operation = selected_operation]
                        /\ pc' = "compute"
                        /\ UNCHANGED stdout

\* result_matrix = getattr(matrix1, method)(matrix2) and the print of it
Compute ==
    /\ pc = "compute"
    /\ UNCHANGED <<plan, disk, stdin>>
    /\ LET method == env.selected_operation.method
           r == CallMethod(heap, env.matrix1, method, env.matrix2)
       IN  /\ heap' = r.heap
           /\ calls' = Append(calls, Outcome(Call(method, env.matrix1, env.matrix2), r))
           /\ IF r.err = "none"
              THEN /\ env' = [env EXCEPT !.result_matrix = r.ret]
                   /\ stdout' = Append(stdout, [kind |-> "output",
                                                name |-> env.selected_operation.name,
                                                text |-> __str__(r.heap[r.ret])])
                   /\ pc' = "save"
              ELSE /\ Except(r.err, r.info)
                   /\ UNCHANGED env

\* result_matrix.save_to_file("result.txt") and the print of the path
Save ==
    /\ pc = "save"
    /\ disk' = save_to_file(disk, heap[env.result_matrix], "result.txt")
    /\ stdout' = Append(stdout, [kind |-> "saved", path |-> "result.txt"])
    /\ pc' = "done"
    /\ UNCHANGED <<heap, calls, plan, stdin, env>>

NextRun == ShowMenu \/ LoadFirst \/ LoadSecond \/ ChooseOperation \/ Compute \/ Save

SpecRun == InitRun /\ [][NextRun]_vars

----------------------------------------------------------------------------
(* Properties of the arithmetic methods, checked under Spec *)

\* The positions of a matrix of the shape of m
Positions(m) == (0..(m.row_count - 1)) \X (0..(m.col_count - 1))

SameShape(m, n) == m.row_count = n.row_count /\ m.col_count = n.col_count

\* The positions stored in m
Stored(m) == { m.data[i].key : i \in DOMAIN m.data }

\* The calls made so far and their operands and results
Made == DOMAIN calls
Left(i) == heap[calls[i].a]
Right(i) == heap[calls[i].b]
Result(i) == heap[calls[i].ret]
Succeeded(i) == calls[i].err = "none"

\* C1: add on two matrices of equal shape succeeds and returns a matrix of
\* that shape whose value at every position in range is the sum of the
\* operands' values there.
AddIsPositionwiseSum ==
    \A i \in Made :
        (calls[i].op = "add" /\ SameShape(Left(i), Right(i))) =>
            /\ Succeeded(i)
            /\ SameShape(Result(i), Left(i))
            /\ \A pos \in Positions(Left(i)) :
                   get_element(Result(i), pos[1], pos[2])
                       = get_element(Left(i), pos[1], pos[2])
                         + get_element(Right(i), pos[1], pos[2])

\* An add has returned whose operands store one position both, one the left
\* alone, one the right alone, and leave one position in range to neither.
AddWitness ==
    \E i \in Made :
        /\ calls[i].op = "add"
        /\ Succeeded(i)
        /\ Stored(Left(i)) \cap Stored(Right(i)) # {}
        /\ Stored(Left(i)) \ Stored(Right(i)) # {}
        /\ Stored(Right(i)) \ Stored(Left(i)) # {}
        /\ Positions(Left(i)) \ (Stored(Left(i)) \cup Stored(Right(i))) # {}

RECURSIVE RowByColumn(_, _, _, _, _)
\* The sum over k in [0, n) of A.get(i, k) * B.get(k, j)
RowByColumn(A, B, i, j, n) ==
    IF n = 0 THEN 0
    ELSE RowByColumn(A, B, i, j, n - 1) + get_element(A, i, n - 1) * get_element(B, n - 1, j)

\* C2: multiply on A and B with A.col_count = B.row_count succeeds and
\* returns a matrix of shape A.row_count x B.col_count whose value at (i, j)
\* is the sum over k of A(i, k) * B(k, j); the documented example gives
\* exactly {(0,0,11)} of shape 1x1.
MultiplyIsMatrixProduct ==
    \A i \in Made :
        (calls[i].op = "multiply" /\ Left(i).col_count = Right(i).row_count) =>
            /\ Succeeded(i)
            /\ Result(i).row_count = Left(i).row_count
            /\ Result(i).col_count = Right(i).col_count
            /\ \A pos \in Positions(Result(i)) :
                   get_element(Result(i), pos[1], pos[2])
                       = RowByColumn(Left(i), Right(i), pos[1], pos[2], Left(i).col_count)
            /\ (Left(i) = ExampleA /\ Right(i) = ExampleB) =>
                   Result(i) = [row_count |-> 1, col_count |-> 1,
                                data |-> <<[key |-> <<0, 0>>, val |-> 11]>>]

\* The documented example has been multiplied.
MultiplyWitness ==
    \E i \in Made :
        /\ calls[i].op = "multiply"
        /\ Succeeded(i)
        /\ Left(i) = ExampleA
        /\ Right(i) = ExampleB
        /\ get_element(Result(i), 0, 0) = 11

\* The call the step makes, if it makes one
CallMade == calls'[Len(calls')]
IsCallStep == Len(calls') = Len(calls) + 1

Mismatched(c) ==
    \/ /\ c.op \in {"add", "subtract"}
       /\ ~SameShape(heap[c.a], heap[c.b])
    \/ /\ c.op = "multiply"
       /\ heap[c.a].col_count # heap[c.b].row_count

\* A call on operands whose shapes do not fit is refused before anything is
\* constructed, read or written.
ValidatesShapeFirstStep ==
    (IsCallStep /\ Mismatched(CallMade)) =>
        /\ CallMade.err = "DimensionMismatch"
        /\ CallMade.ret = 0
        /\ heap' = heap
        /\ CallMade.gets = 0
        /\ CallMade.sets = 0

\* C3: an arithmetic call on operands whose shapes do not fit raises the
\* dimension error, returns nothing, constructs no object and makes no
\* get_element or set_element call.
ValidatesShapeFirst == [][ValidatesShapeFirstStep]_vars

\* add has been refused operands that store entries and differ in col_count.
ValidatesShapeWitness ==
    \E i \in Made :
        /\ calls[i].err = "DimensionMismatch"
        /\ calls[i].op = "add"
        /\ Left(i).data # <<>>
        /\ Right(i).data # <<>>
        /\ Left(i).row_count = Right(i).row_count
        /\ Left(i).col_count # Right(i).col_count

\* A call changes no object and returns, if it returns, a new one.
PureStep ==
    (IsCallStep /\ CallMade.op \in {"add", "subtract", "multiply"}) =>
        /\ \A id \in DOMAIN heap : id \in DOMAIN heap' /\ heap'[id] = heap[id]
        /\ CallMade.err = "none" =>
               /\ CallMade.ret \in DOMAIN heap' \ DOMAIN heap
               /\ CallMade.ret # CallMade.a
               /\ CallMade.ret # CallMade.b
        /\ CallMade.err # "none" => CallMade.ret = 0

\* C4: an arithmetic call, whether it returns or raises, leaves every
\* object that existed before it as it was, and what it returns is an
\* object that did not exist before, so neither operand.
Pure == [][PureStep]_vars

\* A matrix with entries has been subtracted from itself: the result is a
\* third object and the matrix still has its values.
PureWitness ==
    \E i \in Made :
        /\ calls[i].op = "subtract"
        /\ Succeeded(i)
        /\ calls[i].a = calls[i].b
        /\ Len(Left(i).data) = 2
        /\ Left(i).data[1].val # 0
        /\ calls[i].ret = 3
        /\ \A pos \in Positions(Result(i)) : get_element(Result(i), pos[1], pos[2]) = 0

\* C5: subtract(add(A, B), B) on matrices of equal shape succeeds and
\* returns a matrix of A's shape with A's value at every position in range.
SubtractUndoesAdd ==
    \A i \in Made :
        (calls[i].op = "add" /\ SameShape(Left(i), Right(i))) =>
            /\ Succeeded(i)
            /\ \A j \in Made :
                   (j > i /\ calls[j].op = "subtract" /\ calls[j].a = calls[i].ret
                          /\ calls[j].b = calls[i].b) =>
                       /\ Succeeded(j)
                       /\ SameShape(Result(j), Left(i))
                       /\ \A pos \in Positions(Left(i)) :
                              get_element(Result(j), pos[1], pos[2])
                                  = get_element(Left(i), pos[1], pos[2])

\* The round trip has been made on operands that both store a position with
\* values that are not zero.
SubtractUndoesAddWitness ==
    /\ Len(calls) = 2
    /\ calls[1].op = "add"
    /\ calls[2].op = "subtract"
    /\ calls[2].a = calls[1].ret
    /\ Succeeded(2)
    /\ \E pos \in Stored(Left(1)) \cap Stored(Right(1)) :
           /\ get_element(Left(1), pos[1], pos[2]) # 0
           /\ get_element(Right(1), pos[1], pos[2]) # 0
    /\ Stored(Right(1)) \ Stored(Left(1)) # {}

\* Every stored key lies inside the dimensions of its matrix.
KeysInRange ==
    \A id \in DOMAIN heap :
        \A k \in Stored(heap[id]) :
            /\ 0 <= k[1] /\ k[1] < heap[id].row_count
            /\ 0 <= k[2] /\ k[2] < heap[id].col_count

Max(a, b) == IF a >= b THEN a ELSE b

\* The object id has been changed by set_element(k[1], k[2], v).
IsSetOf(id, k, v) ==
    /\ k \in Stored(heap'[id])
    /\ get_element(heap'[id], k[1], k[2]) = v
    /\ \A q \in Stored(heap'[id]) \ {k} :
           /\ q \in Stored(heap[id])
           /\ get_element(heap'[id], q[1], q[2]) = get_element(heap[id], q[1], q[2])

\* No dimension shrinks, and a set_element grows them to hold its indices.
DimensionsGrowStep ==
    /\ \A id \in DOMAIN heap :
           /\ id \in DOMAIN heap'
           /\ heap'[id].row_count >= heap[id].row_count
           /\ heap'[id].col_count >= heap[id].col_count
    /\ (calls' = <<>>) =>
           \A id \in DOMAIN heap :
               heap'[id] # heap[id] =>
                   \E row \in Dims, col \in Dims, value \in Vals :
                       /\ IsSetOf(id, <<row, col>>, value)
                       /\ heap'[id].row_count = Max(heap[id].row_count, row + 1)
                       /\ heap'[id].col_count = Max(heap[id].col_count, col + 1)

\* C7: every stored key lies inside the dimensions; a direct set_element
\* leaves each dimension the larger of what it was and the index + 1; and no
\* step makes a dimension of an object smaller.
KeysInRangeAndDimensionsGrow == []KeysInRange /\ [][DimensionsGrowStep]_vars

\* A matrix constructed with dimensions of at most MaxDim holds one entry,
\* at (MaxDim, MaxDim), and has grown to hold it.
SetGrowsWitness ==
    \E id \in DOMAIN heap :
        /\ calls = <<>>
        /\ Stored(heap[id]) = {<<MaxDim, MaxDim>>}
        /\ heap[id].row_count = MaxDim + 1
        /\ heap[id].col_count = MaxDim + 1

----------------------------------------------------------------------------
(* Distributivity, checked under SpecDistribute: the objects 1, 2, 3 are   *)
(* A, B, C, and the calls are add(A, B) -> 4, multiply(4, C) -> 5,         *)
(* multiply(A, C) -> 6, multiply(B, C) -> 7, add(6, 7) -> 8.               *)

\* C6: for A and B of equal shape and C with C.row_count = A.col_count, all
\* five calls succeed, and multiply(add(A, B), C) and
\* add(multiply(A, C), multiply(B, C)) have the same shape and the same value
\* at every position in range.
MultiplyDistributesOverAdd ==
    (SameShape(heap[1], heap[2]) /\ heap[3].row_count = heap[1].col_count) =>
        /\ \A i \in Made : Succeeded(i)
        /\ Len(calls) = 5 =>
               /\ SameShape(Result(2), Result(5))
               /\ Result(2).row_count = heap[1].row_count
               /\ Result(2).col_count = heap[3].col_count
               /\ \A pos \in Positions(Result(2)) :
                      get_element(Result(2), pos[1], pos[2])
                          = get_element(Result(5), pos[1], pos[2])

\* Both sides have been computed where A and B cancel at a position, so that
\* add(A, B) stores a zero there, and C stores a value in the row that zero
\* is multiplied with.
DistributesWitness ==
    /\ Len(calls) = 5
    /\ \A i \in Made : Succeeded(i)
    /\ calls[2].a = calls[1].ret
    /\ calls[5].a = calls[3].ret
    /\ calls[5].b = calls[4].ret
    /\ \E pos \in Stored(Result(1)) :
           /\ get_element(Result(1), pos[1], pos[2]) = 0
           /\ get_element(heap[1], pos[1], pos[2]) # 0
           /\ \E q \in Stored(heap[3]) :
                  /\ q[1] = pos[2]
                  /\ get_element(heap[3], q[1], q[2]) # 0
                  /\ <<pos[1], q[2]>> \in Stored(Result(2))

----------------------------------------------------------------------------
(* Properties of the loader and the serializer, checked under SpecLoad *)

\* C8: when in.txt loads, the matrix saved to out.txt loads too, into a
\* matrix of the same shape with the same value at every position in range.
LoadSaveLoadRoundTrip ==
    (calls # <<>> /\ Succeeded(1)) =>
        /\ \A i \in Made : Succeeded(i)
        /\ Len(calls) = 3 =>
               /\ SameShape(Result(3), Result(1))
               /\ \A pos \in Positions(Result(1)) :
                      get_element(Result(3), pos[1], pos[2])
                          = get_element(Result(1), pos[1], pos[2])

\* The round trip has been made from a text that declares 0 rows and gives
\* the position (0, 0) twice: the entry lies past the header and the second
\* value, a negative one, replaces the first.
LoadSaveLoadWitness ==
    /\ Len(calls) = 3
    /\ Succeeded(3)
    /\ strip(readlines(disk["in.txt"])[1]) = HeaderLine(RowsPrefix, 0)
    /\ calls[1].sets = 2
    /\ Result(1).row_count = 1
    /\ Stored(Result(1)) = {<<0, 0>>}
    /\ get_element(Result(3), 0, 0) = -1

\* rows=<digits> (or cols=<digits>) and nothing else on the stripped line
IsHeader(prefix, line) ==
    LET t == strip(line)
    IN  MatchHeader(prefix, t).ok /\ MatchDigits(t, Len(prefix) + 1) = Len(t) + 1

\* (<digits>, <digits>, <optional-minus><digits>) and nothing else
IsEntry(t) ==
    LET r2 == MatchDigits(t, 2)
        c1 == r2 + 2
        c2 == MatchDigits(t, c1)
        v1 == c2 + 2
        v2 == IF MatchChar(t, v1, "-") THEN v1 + 1 ELSE v1
        v3 == MatchDigits(t, v2)
    IN  /\ MatchChar(t, 1, "(")
        /\ r2 > 2
        /\ MatchChar(t, r2, ",") /\ MatchChar(t, r2 + 1, " ")
        /\ c2 > c1
        /\ MatchChar(t, c2, ",") /\ MatchChar(t, c2 + 1, " ")
        /\ v3 > v2
        /\ MatchChar(t, v3, ")")
        /\ v3 = Len(t)

\* C9: the loader accepts in.txt only if its first two lines are
\* rows=<digits> and cols=<digits> and every later line that is not empty is
\* exactly an entry; a bad header is refused as such; the first bad later
\* line is refused with its line number and content; a refusal returns no
\* matrix.
LoaderAcceptsOnlyWellFormed ==
    calls # <<>> =>
        LET lines == readlines(disk["in.txt"])
            headerOk == /\ Len(lines) >= 2
                        /\ IsHeader(RowsPrefix, lines[1])
                        /\ IsHeader(ColsPrefix, lines[2])
            bad == { i \in 3..Len(lines) : strip(lines[i]) # <<>> /\ ~IsEntry(strip(lines[i])) }
            first == CHOOSE i \in bad : \A j \in bad : i <= j
        IN  /\ Succeeded(1) => (headerOk /\ bad = {})
            /\ ~headerOk => calls[1].err \in {"NotEnoughLines", "InvalidHeader"}
            /\ (headerOk /\ bad # {}) =>
                   /\ calls[1].err = "InvalidEntry"
                   /\ calls[1].info[1] = first
                   /\ calls[1].info[3] = strip(lines[first])
            /\ ~Succeeded(1) => calls[1].ret = 0

----------------------------------------------------------------------------
(* Properties of perform_calculations, checked under SpecRun *)

Written == "result.txt" \in DOMAIN disk

\* The last thing printed is "Error:" with the exception kind(info).
Reported(kind, info) ==
    /\ stdout # <<>>
    /\ stdout[Len(stdout)] = [kind |-> "error", err |-> kind, info |-> info]

\* The name the menu showed for the key k
ShownName(k) ==
    LET i == CHOOSE j \in DOMAIN stdout : stdout[j].kind = "menu" /\ stdout[j].key = k
    IN  stdout[i].name

\* The method an operation's name stands for
MethodNamed(name) ==
    CASE name = "addition" -> "add"
      [] name = "subtraction" -> "subtract"
      [] name = "multiplication" -> "multiply"

ValidChoices == {"1", "2", "3"}

\* The result of the chosen operation on the two loaded matrices is on
\* screen under the operation's name and in result.txt.
RunSucceeded ==
    /\ Len(calls) = 3
    /\ \A i \in Made : Succeeded(i)
    /\ env.operation_choice \in ValidChoices
    /\ calls[3].op = MethodNamed(ShownName(env.operation_choice))
    /\ calls[3].a = calls[1].ret
    /\ calls[3].b = calls[2].ret
    /\ Len(stdout) >= 2
    /\ stdout[Len(stdout) - 1] = [kind |-> "output",
                                  name |-> ShownName(env.operation_choice),
                                  text |-> __str__(Result(3))]
    /\ stdout[Len(stdout)] = [kind |-> "saved", path |-> "result.txt"]
    /\ Written
    /\ disk["result.txt"] = __str__(Result(3))

RunFailed ==
    /\ ~Written
    /\ stdout # <<>>
    /\ stdout[Len(stdout)].kind = "error"

RunInvariant ==
    /\ Written => (pc = "done" /\ RunSucceeded)
    /\ pc = "done" => (RunSucceeded \/ RunFailed)
    /\ \A i \in Made :
           ~Succeeded(i) =>
               /\ i = Len(calls)
               /\ pc = "done"
               /\ Reported(calls[i].err, calls[i].info)
               /\ ~Written
    /\ \A i \in Made :
           calls[i].op \in {"add", "subtract", "multiply"} =>
               /\ env.operation_choice \in ValidChoices
               /\ calls[i].op = MethodNamed(ShownName(env.operation_choice))

\* The statement that follows when nothing is raised
Following(label) ==
    CASE label = "menu" -> "first"
      [] label = "first" -> "second"
      [] label = "second" -> "choose"
      [] label = "choose" -> "compute"
      [] label = "compute" -> "save"
      [] label = "save" -> "done"

RunStep ==
    \* a step goes on to the following statement or ends the run, and a run
    \* that has ended stays ended: no run has more than six steps
    /\ pc # "done"
    /\ pc' \in {Following(pc), "done"}
    \* a selection that is no key is reported, and nothing is computed
    /\ (pc = "choose" /\ stdin # <<>> /\ Head(stdin) \notin ValidChoices) =>
           /\ pc' = "done"
           /\ Reported("InvalidChoice", <<>>)'
           /\ calls' = calls
           /\ disk' = disk
    \* the result is on screen before it is written
    /\ (~Written /\ Written') =>
           /\ stdout # <<>>
           /\ stdout[Len(stdout)].kind = "output"
           /\ disk'["result.txt"] = stdout[Len(stdout)].text

\* C10: a run in which a step fails reports the failure, ends and never
\* writes result.txt; a run in which every step succeeds shows the result of
\* the operation whose name the menu gave for the choice and then writes it
\* to result.txt; a choice that is no key of the menu is reported and no
\* operation is made in its place; a run ends within six steps, each going
\* on to the following statement or to the end.
RunContract == []RunInvariant /\ [][RunStep]_vars

\* The documented example has been multiplied by a run: 11 at (0, 0) of a
\* 1x1 matrix is in result.txt.
RunWitness ==
    /\ pc = "done"
    /\ Written
    /\ env.operation_choice = "2"
    /\ disk["result.txt"] =
           JoinLines(<<HeaderLine(RowsPrefix, 1), HeaderLine(ColsPrefix, 1)>>)
           \o EntryLine(0, 0, 11)

============================================================================
